---- MODULE Spec2Model ----
(***************************************************************************)
(* Rule-based fire detector of fire_detection.py (the strict profile) and  *)
(* fire_detection_advanced.py (the permissive profile).                    *)
(*                                                                         *)
(* A frame is described by what the pipeline reads from it: the identity   *)
(* of its grayscale image and the blobs it shows.  A blob is a region of   *)
(* one HSV colour, large enough to pass the 5x5 open/close unchanged, with *)
(* the geometry of its outer contour.  Optical flow is a library result:   *)
(* it is an input of the step, zero when both grayscale images are the     *)
(* same image.  Ratios (thresholds, motion ratio) are pairs <<num, den>>   *)
(* compared by cross-multiplication.                                       *)
(***************************************************************************)
EXTENDS Integers, Sequences, FiniteSets, TLC

VARIABLES det, run

vars == <<det, run>>

Max(a, b) == IF a >= b THEN a ELSE b
Min(a, b) == IF a <= b THEN a ELSE b

\* r1 > r2 for ratios <<num, den>> with positive denominators
RatioGT(r1, r2) == r1[1] * r2[2] > r2[1] * r1[2]

-----------------------------------------------------------------------------
\* Bounds of the model
MaxFrames == 10
MaxScenarioFrames == 10
\* frames of a scenario run that may depart from the positive scenario
MaxOffScript == 3

-----------------------------------------------------------------------------
\* Configuration (FireDetector.__init__ of both files)
Profiles == {"strict", "permissive"}

strict_required_detections == 5
permissive_required_detections == 3
\* mutant: the two profiles' thresholds exchanged
required_detections_swapped(p) ==
    IF p = "strict" THEN permissive_required_detections
    ELSE strict_required_detections

required_detections(p) ==
    IF p = "strict" THEN strict_required_detections
    ELSE permissive_required_detections

\* 0.45 and 0.15
min_motion_threshold(p) == IF p = "strict" THEN <<9, 20>> ELSE <<3, 20>>

\* 0.08 and 0.02
min_flicker_variance(p) == IF p = "strict" THEN <<2, 25>> ELSE <<1, 50>>

min_fire_area(p) == IF p = "strict" THEN 800 ELSE 500
max_fire_area(p) == IF p = "strict" THEN 80000 ELSE 100000

\* deque(maxlen=10)
flicker_maxlen == 10
\* len(self.flicker_history) < 5
flicker_warmup == 5

\* np.pi as a ratio
PiNum == 355
PiDen == 113

-----------------------------------------------------------------------------
\* Colour segmentation: cv2.inRange is inclusive on both ends
inRange(hsv, lower, upper) ==
    \A i \in 1..3 : lower[i] <= hsv[i] /\ hsv[i] <= upper[i]

strict_fire(hsv) ==
    \/ inRange(hsv, <<0, 140, 150>>, <<15, 255, 255>>)
    \/ inRange(hsv, <<175, 140, 150>>, <<180, 255, 255>>)
strict_skin(hsv) == inRange(hsv, <<0, 10, 60>>, <<25, 110, 200>>)
\* mutant: the produce band reaches ten saturation steps into the fire band
strict_tomato_wide(hsv) ==
    \/ inRange(hsv, <<0, 60, 80>>, <<25, 150, 150>>)
    \/ inRange(hsv, <<170, 60, 80>>, <<180, 150, 150>>)
strict_tomato(hsv) ==
    \/ inRange(hsv, <<0, 60, 80>>, <<25, 140, 150>>)
    \/ inRange(hsv, <<170, 60, 80>>, <<180, 140, 150>>)
strict_cloth(hsv) ==
    \/ inRange(hsv, <<0, 50, 50>>, <<25, 110, 180>>)
    \/ inRange(hsv, <<170, 50, 50>>, <<180, 110, 180>>)

permissive_fire(hsv) ==
    \/ inRange(hsv, <<0, 100, 100>>, <<25, 255, 255>>)
    \/ inRange(hsv, <<170, 100, 100>>, <<180, 255, 255>>)
permissive_cloth(hsv) ==
    \/ inRange(hsv, <<0, 50, 50>>, <<25, 100, 150>>)
    \/ inRange(hsv, <<170, 50, 50>>, <<180, 100, 150>>)

\* the pixel test of detect_fire_color before morphology
strict_detect_fire_color(hsv) ==
    ((strict_fire(hsv) /\ ~strict_skin(hsv)) /\ ~strict_tomato(hsv))
        /\ ~strict_cloth(hsv)

permissive_detect_fire_color(hsv) ==
    permissive_fire(hsv) /\ ~permissive_cloth(hsv)

detect_fire_color(p, hsv) ==
    IF p = "strict" THEN strict_detect_fire_color(hsv)
    ELSE permissive_detect_fire_color(hsv)

-----------------------------------------------------------------------------
\* Shape gates.  A contour is [area, perimeter, rect_w, rect_h, hull_area]
\* with rect_w = rect[1][0] and rect_h = rect[1][1] of cv2.minAreaRect.

\* (4 * pi * area) / (perimeter * perimeter) > num/den
CircularityGT(c, r) ==
    4 * PiNum * c.area * r[2] > r[1] * PiDen * c.perimeter * c.perimeter
CircularityLT(c, r) ==
    4 * PiNum * c.area * r[2] < r[1] * PiDen * c.perimeter * c.perimeter

strict_is_fire_like_shape(c) ==
    IF c.area < min_fire_area("strict") \/ c.area > max_fire_area("strict")
    THEN FALSE
    ELSE IF c.perimeter = 0 THEN FALSE
    ELSE IF CircularityGT(c, <<7, 10>>) THEN FALSE
    ELSE IF CircularityLT(c, <<1, 4>>) THEN FALSE
    ELSE IF c.rect_w = 0 THEN FALSE
    ELSE IF RatioGT(<<c.rect_h, c.rect_w>>, <<9, 5>>)
            \/ RatioGT(<<3, 5>>, <<c.rect_h, c.rect_w>>) THEN FALSE
    ELSE IF c.hull_area = 0 THEN FALSE
    ELSE IF RatioGT(<<c.area, c.hull_area>>, <<17, 20>>) THEN FALSE
    ELSE IF RatioGT(<<2, 5>>, <<c.area, c.hull_area>>) THEN FALSE
    ELSE TRUE

permissive_is_fire_like_shape(c) ==
    IF c.area < min_fire_area("permissive")
          \/ c.area > max_fire_area("permissive")
    THEN FALSE
    ELSE IF c.perimeter = 0 THEN FALSE
    ELSE IF CircularityGT(c, <<4, 5>>) THEN FALSE
    ELSE IF c.rect_w = 0 THEN FALSE
    ELSE IF RatioGT(<<c.rect_h, c.rect_w>>, <<3, 1>>)
            \/ RatioGT(<<3, 10>>, <<c.rect_h, c.rect_w>>) THEN FALSE
    ELSE TRUE

is_fire_like_shape(p, c) ==
    IF p = "strict" THEN strict_is_fire_like_shape(c)
    ELSE permissive_is_fire_like_shape(c)

-----------------------------------------------------------------------------
\* Frames
Contour(a, per, w, h, hull) ==
    [area |-> a, perimeter |-> per, rect_w |-> w, rect_h |-> h, hull_area |-> hull]

FlameHSV == <<5, 200, 220>>
ClothHSV == <<5, 80, 100>>
DimHSV == <<20, 120, 120>>

\* name |-> colour, pixel count of the region, outer contour
Blob ==
    [flameS |-> [hsv |-> FlameHSV, pixels |-> 1000,
                 contour |-> Contour(1000, 180, 30, 40, 1300)],
     flameL |-> [hsv |-> FlameHSV, pixels |-> 1100,
                 contour |-> Contour(1100, 190, 32, 42, 1400)],
     ball   |-> [hsv |-> FlameHSV, pixels |-> 1000,
                 contour |-> Contour(1000, 113, 36, 36, 1000)],
     flameM |-> [hsv |-> FlameHSV, pixels |-> 900,
                 contour |-> Contour(900, 170, 28, 38, 1200)],
     speck  |-> [hsv |-> FlameHSV, pixels |-> 100,
                 contour |-> Contour(100, 60, 10, 12, 130)],
     cloth  |-> [hsv |-> ClothHSV, pixels |-> 1000,
                 contour |-> Contour(1000, 113, 36, 36, 1000)],
     dim    |-> [hsv |-> DimHSV, pixels |-> 1000,
                 contour |-> Contour(1000, 180, 30, 40, 1300)]]

BlobNames == DOMAIN Blob


\* a frame: the identity of its grayscale image and the blobs it shows
GrayIds == {1, 2}
BlobSets == {{}, {"flameS"}, {"ball"}, {"cloth"}, {"dim"}, {"speck", "flameM"}}
Frames == [gray : GrayIds, blobs : BlobSets]

\* the share of every blob's pixels whose flow magnitude exceeds 2.0:
\* none, exactly the share the profile's threshold names, all
NoFlow == <<0, 1>>
FullFlow == <<1, 1>>
FlowLevels(p) == {NoFlow, min_motion_threshold(p), FullFlow}

RECURSIVE SumOver(_, _)
SumOver(S, f) ==
    IF S = {} THEN 0
    ELSE LET x == CHOOSE y \in S : TRUE IN f[x] + SumOver(S \ {x}, f)

RECURSIVE GCD(_, _)
GCD(a, b) == IF b = 0 THEN a ELSE GCD(b, a % b)

\* the value of num / den
Ratio(num, den) == LET g == GCD(num, den) IN <<num \div g, den \div g>>

\* the blobs of the frame that are set in fire_mask
fire_mask_of(p, frame) == {b \in frame.blobs : detect_fire_color(p, Blob[b].hsv)}

\* cv2.countNonZero(fire_mask)
countNonZero(mask) == SumOver(mask, [b \in BlobNames |-> Blob[b].pixels])

\* np.sum(masked_magnitude > 2.0)
motion_pixels_of(mask, flow) ==
    SumOver(mask, [b \in BlobNames |-> (Blob[b].pixels * flow[1]) \div flow[2]])

-----------------------------------------------------------------------------
\* Detector state and the values of the last return
None == 0

FreshDetector(p) ==
    [profile |-> p,
     prev_gray |-> None,
     flicker_history |-> <<>>,
     consecutive_frames |-> 0,
     calls |-> 0,
     fire_detected_this_frame |-> FALSE,
     fire_status |-> FALSE,
     confidence |-> 0,
     motion_ratio |-> <<0, 1>>,
     has_flicker |-> FALSE]

\* mutant: no early return on the first call
detect_motion_no_first_call(prev_gray, gray, mask, flow) ==
    LET fire_pixels == countNonZero(mask)
        motion_ratio == IF fire_pixels = 0 THEN <<0, 1>>
                        ELSE Ratio(motion_pixels_of(mask, flow), fire_pixels)
    IN [prev_gray |-> gray, motion_ratio |-> motion_ratio]

\* mutant: no fire_pixels == 0 branch, 0 / 0 is NaN
detect_motion_no_empty_guard(prev_gray, gray, mask, flow) ==
    IF prev_gray = None
    THEN [prev_gray |-> gray, motion_ratio |-> <<0, 1>>]
    ELSE LET fire_pixels == countNonZero(mask)
             motion_ratio == IF fire_pixels = 0 THEN <<0, 0>>
                             ELSE Ratio(motion_pixels_of(mask, flow), fire_pixels)
         IN [prev_gray |-> gray, motion_ratio |-> motion_ratio]

\* mutant: returns early on an empty mask, before prev_gray is replaced
detect_motion_keeps_prev(prev_gray, gray, mask, flow) ==
    IF prev_gray = None
    THEN [prev_gray |-> gray, motion_ratio |-> <<0, 1>>]
    ELSE LET fire_pixels == countNonZero(mask)
         IN IF fire_pixels = 0
            THEN [prev_gray |-> prev_gray, motion_ratio |-> <<0, 1>>]
            ELSE [prev_gray |-> gray,
                  motion_ratio |-> Ratio(motion_pixels_of(mask, flow), fire_pixels)]

\* [prev_gray, motion_ratio] after detect_motion
detect_motion(prev_gray, gray, mask, flow) ==
    IF prev_gray = None
    THEN [prev_gray |-> gray, motion_ratio |-> <<0, 1>>]
    ELSE LET fire_pixels == countNonZero(mask)
             motion_ratio == IF fire_pixels = 0 THEN <<0, 1>>
                             ELSE Ratio(motion_pixels_of(mask, flow), fire_pixels)
         IN [prev_gray |-> gray, motion_ratio |-> motion_ratio]

\* mutant: a full history refuses the new sample
deque_append_keeps_oldest(h, x) ==
    IF Len(h) < flicker_maxlen THEN Append(h, x) ELSE h

\* deque(maxlen=10).append
deque_append(h, x) ==
    IF Len(h) < flicker_maxlen THEN Append(h, x) ELSE Append(Tail(h), x)

RECURSIVE SeqSum(_)
SeqSum(s) == IF s = <<>> THEN 0 ELSE Head(s) + SeqSum(Tail(s))

RECURSIVE SeqSumSq(_)
SeqSumSq(s) == IF s = <<>> THEN 0 ELSE Head(s) * Head(s) + SeqSumSq(Tail(s))

\* mutant: area_variance >= min_flicker_variance
area_variance_ge(h, thr) ==
    LET n == Len(h)
        S == SeqSum(h)
        Q == SeqSumSq(h)
    IN thr[2] * (n * Q - S * S) >= thr[1] * n * (S + n)

\* np.var(a) / (np.mean(a) + 1) > thr, with var = (n*Q - S*S) / n^2 and
\* mean + 1 = (S + n) / n
area_variance_exceeds(h, thr) ==
    LET n == Len(h)
        S == SeqSum(h)
        Q == SeqSumSq(h)
    IN thr[2] * (n * Q - S * S) > thr[1] * n * (S + n)

\* mutant: one sample fewer
warming_up_short(h) == Len(h) < flicker_warmup - 1

\* the warm-up test of detect_flicker
warming_up(h) == Len(h) < flicker_warmup

\* detect_flicker from the append on, fire_area being the mask's area
flicker_of(history, fire_area, thr) ==
    LET h == deque_append(history, fire_area)
    IN [flicker_history |-> h,
        has_flicker |-> IF warming_up(h) THEN FALSE
                        ELSE area_variance_exceeds(h, thr)]

\* [flicker_history, has_flicker] after detect_flicker
detect_flicker(history, mask, thr) ==
    flicker_of(history, countNonZero(mask), thr)

\* one contour per region of the mask
get_fire_contours(mask) == mask

\* mutant: motion_ratio >= threshold
vote_motion_ge(fire_detected_this_frame, motion_ratio, has_flicker, threshold) ==
    fire_detected_this_frame /\ ~RatioGT(threshold, motion_ratio) /\ has_flicker

\* mutant: colour and shape alone
vote_shape_only(fire_detected_this_frame, motion_ratio, has_flicker, threshold) ==
    fire_detected_this_frame

\* the multi-criteria test of process_frame
vote(fire_detected_this_frame, motion_ratio, has_flicker, threshold) ==
    fire_detected_this_frame /\ RatioGT(motion_ratio, threshold) /\ has_flicker

\* mutant: a frame without a vote clears the counter
update_reset(c, v) == IF v THEN c + 1 ELSE 0

\* mutant: decay without the floor
update_no_floor(c, v) == IF v THEN c + 1 ELSE c - 1

update_consecutive(c, v) == IF v THEN c + 1 ELSE Max(0, c - 1)

\* mutant: strictly more than required
final_decision_gt(c, required) == c > required

final_decision(c, required) == c >= required

\* confidence is counted in units of 1/ConfUnit percent, which holds c/3
\* and c/5 of 100 exactly
ConfUnit == strict_required_detections * permissive_required_detections
Percent(n) == n * ConfUnit

\* mutant: no cap at 100
confidence_uncapped(c, required) == (c * Percent(100)) \div required

confidence_score(c, required) ==
    Min(Percent(100), (c * Percent(100)) \div required)

\* mutant: status and confidence are taken before the counter is updated
process_frame_stale_status(D, frame, flow) ==
    LET p == D.profile
        fire_mask == fire_mask_of(p, frame)
        m == detect_motion(D.prev_gray, frame.gray, fire_mask, flow)
        contours == get_fire_contours(fire_mask)
        valid_contours == {b \in contours : is_fire_like_shape(p, Blob[b].contour)}
        fire_detected_this_frame == valid_contours # {}
        f == detect_flicker(D.flicker_history, fire_mask, min_flicker_variance(p))
        c == update_consecutive(D.consecutive_frames,
                 vote(fire_detected_this_frame, m.motion_ratio, f.has_flicker,
                      min_motion_threshold(p)))
    IN [profile |-> p,
        prev_gray |-> m.prev_gray,
        flicker_history |-> f.flicker_history,
        consecutive_frames |-> c,
        calls |-> D.calls + 1,
        fire_detected_this_frame |-> fire_detected_this_frame,
        fire_status |-> final_decision(D.consecutive_frames, required_detections(p)),
        confidence |-> confidence_score(D.consecutive_frames, required_detections(p)),
        motion_ratio |-> m.motion_ratio,
        has_flicker |-> f.has_flicker]

process_frame(D, frame, flow) ==
    LET p == D.profile
        fire_mask == fire_mask_of(p, frame)
        m == detect_motion(D.prev_gray, frame.gray, fire_mask, flow)
        contours == get_fire_contours(fire_mask)
        valid_contours == {b \in contours : is_fire_like_shape(p, Blob[b].contour)}
        fire_detected_this_frame == valid_contours # {}
        f == detect_flicker(D.flicker_history, fire_mask, min_flicker_variance(p))
        c == update_consecutive(D.consecutive_frames,
                 vote(fire_detected_this_frame, m.motion_ratio, f.has_flicker,
                      min_motion_threshold(p)))
    IN [profile |-> p,
        prev_gray |-> m.prev_gray,
        flicker_history |-> f.flicker_history,
        consecutive_frames |-> c,
        calls |-> D.calls + 1,
        fire_detected_this_frame |-> fire_detected_this_frame,
        fire_status |-> final_decision(c, required_detections(p)),
        confidence |-> confidence_score(c, required_detections(p)),
        motion_ratio |-> m.motion_ratio,
        has_flicker |-> f.has_flicker]

\* the flow the library can return for a frame: zero between two equal
\* grayscale images, anything otherwise (with no previous image the value
\* stands for what a flow computation would give, were one made)
FlowsFor(D, frame) ==
    IF D.prev_gray = frame.gray THEN {NoFlow}
    ELSE FlowLevels(D.profile)

-----------------------------------------------------------------------------
\* One detector of either profile, fed any frames.  run records whether
\* every frame so far was one and the same frame (last).
NoFrame == [gray |-> None, blobs |-> {}]

FreshRun == [static |-> TRUE, last |-> NoFrame]

NextRun(frame) ==
    LET st == run.static /\ (run.last = NoFrame \/ run.last = frame)
    IN [static |-> st, last |-> IF st THEN frame ELSE NoFrame]

Init ==
    /\ \E p \in Profiles : det = [d \in {"A"} |-> FreshDetector(p)]
    /\ run = FreshRun

ProcessFrame ==
    /\ det["A"].calls < MaxFrames
    /\ \E frame \in Frames : \E flow \in FlowsFor(det["A"], frame) :
          /\ det' = [det EXCEPT !["A"] = process_frame(det["A"], frame, flow)]
          /\ run' = NextRun(frame)

Next == ProcessFrame

Spec == Init /\ [][Next]_vars

-----------------------------------------------------------------------------
\* The scenario run of the testable properties: the same frame sequence is
\* given to a fresh strict detector (A) and a fresh permissive one (B).
\* run records
\*   offscript   - the number of frames so far that did not show the
\*                 jittering, moving flame of the positive scenario
\*   dominated   - every frame so far that voted in A also voted in B
\*   alerted     - whether fire_status was True on some frame so far
ScenarioBlobSets == {{"flameS"}, {"flameL"}, {"dim"}}
ScenarioFrames == [gray : GrayIds, blobs : ScenarioBlobSets]

ScenarioFlows(D, frame) ==
    IF D.prev_gray = frame.gray THEN {NoFlow}
    ELSE {NoFlow, FullFlow}

\* the frame shows the flame; its area and position differ from those of
\* the previous frame, and all of its pixels move
Jitters(D, frame, flow) ==
    /\ frame.blobs \in {{"flameS"}, {"flameL"}}
    /\ D.prev_gray # frame.gray
    /\ D.flicker_history # <<>> =>
           D.flicker_history[Len(D.flicker_history)] # countNonZero(frame.blobs)
    /\ flow = FullFlow

\* the run so far is the positive scenario
positive == run.offscript = 0

\* whether the call that left D counted a vote
voted(D) ==
    vote(D.fire_detected_this_frame, D.motion_ratio, D.has_flicker,
         min_motion_threshold(D.profile))

ScenarioInit ==
    /\ det = [A |-> FreshDetector("strict"), B |-> FreshDetector("permissive")]
    /\ run = [offscript |-> 0, dominated |-> TRUE,
              alerted |-> [A |-> FALSE, B |-> FALSE]]

ScenarioStep ==
    /\ det["A"].calls < MaxScenarioFrames
    /\ \E frame \in ScenarioFrames : \E flow \in ScenarioFlows(det["A"], frame) :
          /\ Jitters(det["A"], frame, flow) \/ run.offscript < MaxOffScript
          /\ det' = [d \in {"A", "B"} |-> process_frame(det[d], frame, flow)]
          /\ run' = [offscript |-> IF Jitters(det["A"], frame, flow)
                                   THEN run.offscript ELSE run.offscript + 1,
                     dominated |-> run.dominated
                                     /\ (voted(det'["A"]) => voted(det'["B"])),
                     alerted |->
                        [d \in {"A", "B"} |->
                            run.alerted[d] \/ det'[d].fire_status]]

ScenarioNext == ScenarioStep

SpecScenario == ScenarioInit /\ [][ScenarioNext]_vars

-----------------------------------------------------------------------------
\* Faulty frames.  Images 1 and 2 have the size of the stream; image 3 has
\* another size and image 4 is zero-sized.  cv2.cvtColor raises on an empty
\* image and cv2.calcOpticalFlowFarneback raises when its two images differ
\* in size; process_frame catches nothing, so the caller gets the exception
\* and no result.  Both calls come before the first write to the detector.
OtherSizeGrays == {3}
EmptyGrays == {4}

shape_of(g) ==
    IF g \in EmptyGrays THEN "0x0"
    ELSE IF g \in OtherSizeGrays THEN "320x240"
    ELSE "640x480"

\* cv2.cvtColor(frame, ...) of process_frame
cvtColor_raises(frame) == shape_of(frame.gray) = "0x0"

\* cv2.calcOpticalFlowFarneback(self.prev_gray, gray_frame, ...)
flow_raises(prev_gray, gray) ==
    prev_gray # None /\ shape_of(prev_gray) # shape_of(gray)

\* mutant: detect_flicker runs ahead of detect_motion, so the area sample
\* is appended before the flow computation can raise
writes_before_raise_flicker_first(D, frame) ==
    IF cvtColor_raises(frame) THEN D
    ELSE [D EXCEPT !.flicker_history =
             deque_append(@, countNonZero(fire_mask_of(D.profile, frame)))]

\* the detector when the exception leaves process_frame: cv2.cvtColor and
\* cv2.calcOpticalFlowFarneback are both called before the first
\* assignment to an attribute
writes_before_raise(D, frame) == D

\* mutant: the exception is caught and a zero-confidence result returned
process_frame_call_swallows(D, frame, flow) ==
    IF cvtColor_raises(frame) \/ flow_raises(D.prev_gray, frame.gray)
    THEN [raised |-> FALSE,
          det |-> [D EXCEPT !.calls = @ + 1, !.fire_status = FALSE,
                            !.confidence = 0]]
    ELSE [raised |-> FALSE, det |-> process_frame(D, frame, flow)]

\* one call of process_frame as the caller sees it: the exception, with the
\* detector as it was, or the result
process_frame_call(D, frame, flow) ==
    IF cvtColor_raises(frame) \/ flow_raises(D.prev_gray, frame.gray)
    THEN [raised |-> TRUE, det |-> writes_before_raise(D, frame)]
    ELSE [raised |-> FALSE, det |-> process_frame(D, frame, flow)]

MaxFaultFrames == 7

FaultBlobSets == {{}, {"flameS"}}
FaultFrames == [gray : GrayIds \cup OtherSizeGrays \cup EmptyGrays,
                blobs : FaultBlobSets]

\* run records the frame of the last call, whether it raised, and the
\* number of calls made
FaultInit ==
    /\ \E p \in Profiles : det = [d \in {"A"} |-> FreshDetector(p)]
    /\ run = [raised |-> FALSE, last |-> NoFrame, attempts |-> 0]

CallProcessFrame ==
    /\ run.attempts < MaxFaultFrames
    /\ \E frame \in FaultFrames : \E flow \in FlowsFor(det["A"], frame) :
          LET r == process_frame_call(det["A"], frame, flow)
          IN /\ det' = [det EXCEPT !["A"] = r.det]
             /\ run' = [raised |-> r.raised, last |-> frame,
                        attempts |-> run.attempts + 1]

FaultNext == CallProcessFrame

SpecFault == FaultInit /\ [][FaultNext]_vars

-----------------------------------------------------------------------------
\* is_fire_like_shape applied to one contour, with each division written out

ZeroDivisionError == "ZeroDivisionError"

\* Python's n / d
divide(n, d) ==
    IF d = 0 THEN [raised |-> TRUE, q |-> <<0, 1>>]
    ELSE [raised |-> FALSE, q |-> <<n, d>>]

\* the four gates of fire_detection.py, each with its band as parameters
area_gate(c, lo, hi) == c.area >= lo /\ c.area <= hi
circularity_gate(c, lo, hi) ==
    c.perimeter # 0 /\ ~CircularityGT(c, hi) /\ ~CircularityLT(c, lo)
aspect_gate(ratio, lo, hi) ==
    ratio[2] # 0 /\ ~RatioGT(ratio, hi) /\ ~RatioGT(lo, ratio)
solidity_gate(c, lo, hi) ==
    /\ c.hull_area # 0
    /\ ~RatioGT(<<c.area, c.hull_area>>, hi)
    /\ ~RatioGT(lo, <<c.area, c.hull_area>>)

\* mutant: no area gate and no zero checks before the divisions
shape_outcome_unguarded(p, c) ==
    LET circularity == divide(4 * PiNum * c.area, PiDen * c.perimeter * c.perimeter)
        aspect_ratio == divide(c.rect_h, c.rect_w)
        solidity == divide(c.area, c.hull_area)
        strict == p = "strict"
    IN IF circularity.raised THEN ZeroDivisionError
       ELSE IF RatioGT(circularity.q, IF strict THEN <<7, 10>> ELSE <<4, 5>>)
       THEN "False"
       ELSE IF strict /\ RatioGT(<<1, 4>>, circularity.q) THEN "False"
       ELSE IF aspect_ratio.raised THEN ZeroDivisionError
       ELSE IF RatioGT(aspect_ratio.q, IF strict THEN <<9, 5>> ELSE <<3, 1>>)
               \/ RatioGT(IF strict THEN <<3, 5>> ELSE <<3, 10>>, aspect_ratio.q)
       THEN "False"
       ELSE IF ~strict THEN "True"
       ELSE IF solidity.raised THEN ZeroDivisionError
       ELSE IF RatioGT(solidity.q, <<17, 20>>) \/ RatioGT(<<2, 5>>, solidity.q)
       THEN "False"
       ELSE "True"

strict_shape_outcome(c) ==
    IF c.area < min_fire_area("strict") \/ c.area > max_fire_area("strict")
    THEN "False"
    ELSE IF c.perimeter = 0 THEN "False"
    ELSE LET circularity ==
                 divide(4 * PiNum * c.area, PiDen * c.perimeter * c.perimeter)
         IN
    IF circularity.raised THEN ZeroDivisionError
    ELSE IF RatioGT(circularity.q, <<7, 10>>) THEN "False"
    ELSE IF RatioGT(<<1, 4>>, circularity.q) THEN "False"
    ELSE IF c.rect_w = 0 THEN "False"
    ELSE LET aspect_ratio == divide(c.rect_h, c.rect_w) IN
    IF aspect_ratio.raised THEN ZeroDivisionError
    ELSE IF RatioGT(aspect_ratio.q, <<9, 5>>) \/ RatioGT(<<3, 5>>, aspect_ratio.q)
    THEN "False"
    ELSE IF c.hull_area = 0 THEN "False"
    ELSE LET solidity == divide(c.area, c.hull_area) IN
    IF solidity.raised THEN ZeroDivisionError
    ELSE IF RatioGT(solidity.q, <<17, 20>>) THEN "False"
    ELSE IF RatioGT(<<2, 5>>, solidity.q) THEN "False"
    ELSE "True"

permissive_shape_outcome(c) ==
    IF c.area < min_fire_area("permissive")
          \/ c.area > max_fire_area("permissive")
    THEN "False"
    ELSE IF c.perimeter = 0 THEN "False"
    ELSE LET circularity ==
                 divide(4 * PiNum * c.area, PiDen * c.perimeter * c.perimeter)
         IN
    IF circularity.raised THEN ZeroDivisionError
    ELSE IF RatioGT(circularity.q, <<4, 5>>) THEN "False"
    ELSE IF c.rect_w = 0 THEN "False"
    ELSE LET aspect_ratio == divide(c.rect_h, c.rect_w) IN
    IF aspect_ratio.raised THEN ZeroDivisionError
    ELSE IF RatioGT(aspect_ratio.q, <<3, 1>>) \/ RatioGT(<<3, 10>>, aspect_ratio.q)
    THEN "False"
    ELSE "True"

shape_outcome(p, c) ==
    IF p = "strict" THEN strict_shape_outcome(c)
    ELSE permissive_shape_outcome(c)

\* Contours handed to is_fire_like_shape.  cv2 measures of one closed
\* contour: the hull contains the contour, the minimal rectangle contains
\* the hull, the outline is at least twice the longer side and encloses at
\* most a disc's area; a single point has no extent at all.
ContourAreas == {0, 499, 500, 799, 800, 1000, 1800}
ContourPerimeters == {0, 20, 113, 130, 180, 250, 400}
ContourSides == {0, 10, 36, 40, 57, 70, 100}
ContourHullAreas == {0, 1000, 1300, 2400, 5000}

ShapeContours ==
    {c \in [area : ContourAreas, perimeter : ContourPerimeters,
            rect_w : ContourSides, rect_h : ContourSides,
            hull_area : ContourHullAreas] :
        /\ c.hull_area >= c.area
        /\ c.rect_w * c.rect_h >= c.hull_area
        /\ c.perimeter >= 2 * Max(c.rect_w, c.rect_h)
        /\ 4 * PiNum * c.area <= PiDen * c.perimeter * c.perimeter
        /\ c.perimeter = 0 => c.rect_w = 0 /\ c.rect_h = 0}

\* run holds the contour and, once classified, what the call did
ShapeInit ==
    /\ \E p \in Profiles : det = [d \in {"A"} |-> FreshDetector(p)]
    /\ \E c \in ShapeContours :
          run = [contour |-> c, outcome |-> "pending", accepted |-> FALSE]

ClassifyShape ==
    /\ run.outcome = "pending"
    /\ run' = [run EXCEPT
                 !.outcome = shape_outcome(det["A"].profile, run.contour),
                 !.accepted = is_fire_like_shape(det["A"].profile, run.contour)]
    /\ UNCHANGED det

ShapeNext == ClassifyShape

SpecShape == ShapeInit /\ [][ShapeNext]_vars

-----------------------------------------------------------------------------
\* Two detector instances fed in any interleaving

MaxTwoFrames == 7

\* mutant: the attributes live on the class, one set for all instances
attribute_owner_class(d) == "A"

\* the object that holds detector d's attributes: __init__ assigns every
\* one of them on self
attribute_owner(d) == d

TwoDetectors == {"A", "B"}
TwoBlobSets == {{}, {"flameS"}}
TwoFrames == [gray : GrayIds, blobs : TwoBlobSets]

\* run.solo[d] is a detector of d's class that alone receives d's frames
TwoInit ==
    /\ \E p \in Profiles : det = [d \in TwoDetectors |-> FreshDetector(p)]
    /\ run = [solo |-> det, caller |-> "A", total |-> 0]

TwoStep(d) ==
    /\ run.total < MaxTwoFrames
    /\ \E frame \in TwoFrames : \E flow \in FlowsFor(run.solo[d], frame) :
          /\ det' = [det EXCEPT ![attribute_owner(d)] =
                                    process_frame(@, frame, flow)]
          /\ run' = [solo |-> [run.solo EXCEPT ![d] =
                                   process_frame(@, frame, flow)],
                     caller |-> d,
                     total |-> run.total + 1]

TwoNext == \E d \in TwoDetectors : TwoStep(d)

SpecTwo == TwoInit /\ [][TwoNext]_vars

-----------------------------------------------------------------------------
\* The image arrays process_frame reads and writes, as objects on a heap

MaxAliasFrames == 3

\* mutant: no copy is taken, the name is bound to the source array
copy_object_none(src, fresh) == src

\* ndarray.copy(): a new array
copy_object(src, fresh) == fresh

\* cv2.cvtColor(frame, code): the result is a new array
cvtColor_object(src, fresh) == fresh

\* the contours process_frame accepts and draws
valid_contours_of(p, frame) ==
    {b \in get_fire_contours(fire_mask_of(p, frame)) :
        is_fire_like_shape(p, Blob[b].contour)}

\* cv2.rectangle(img, ...) for every contour of boxes: draws into img
rectangle(heap, img, boxes) ==
    [heap EXCEPT ![img].boxes = @ \cup boxes]

AliasBlobSets == {{}, {"flameS"}, {"ball"}}
AliasFrames == [gray : GrayIds, blobs : AliasBlobSets]

\* arrays allocated during one call: frame, gray, gray copy, marked frame
ObjectsPerCall == 4
NoObject == 0

\* run.heap maps the live arrays to their content; input, marked and prev
\* name the caller's frame, the returned frame and self.prev_gray
AliasInit ==
    /\ \E p \in Profiles : det = [d \in {"A"} |-> FreshDetector(p)]
    /\ run = [heap |-> <<>>, input |-> NoObject, marked |-> NoObject,
              prev |-> NoObject, given |-> NoFrame, next |-> 1]

AliasStep ==
    /\ det["A"].calls < MaxAliasFrames
    /\ \E frame \in AliasFrames : \E flow \in FlowsFor(det["A"], frame) :
          LET D == det["A"]
              input == run.next
              gray == cvtColor_object(input, run.next + 1)
              prev == IF D.prev_gray = None THEN gray
                      ELSE copy_object(gray, run.next + 2)
              marked == copy_object(input, run.next + 3)
              picture == [picture |-> frame, boxes |-> {}]
              gray_picture == [picture |-> [frame EXCEPT !.blobs = {}],
                               boxes |-> {}]
              heap0 == [o \in {input, prev, marked} |->
                           IF o = input THEN picture
                           ELSE IF o = marked THEN picture
                           ELSE gray_picture]
          IN /\ det' = [det EXCEPT !["A"] = process_frame(D, frame, flow)]
             /\ run' = [heap |-> rectangle(heap0, marked,
                                           valid_contours_of(D.profile, frame)),
                        input |-> input, marked |-> marked, prev |-> prev,
                        given |-> frame, next |-> run.next + ObjectsPerCall]

AliasNext == AliasStep

SpecAlias == AliasInit /\ [][AliasNext]_vars

-----------------------------------------------------------------------------
\* One detector fed more frames than the flicker history holds

MaxHistoryFrames == 12

HistoryBlobSets == {{}, {"flameS"}}
HistoryFrames == [gray : GrayIds, blobs : HistoryBlobSets]

\* run.areas lists the mask area of every frame given so far, run.last is
\* the frame of the last call
HistoryInit ==
    /\ \E p \in Profiles : det = [d \in {"A"} |-> FreshDetector(p)]
    /\ run = [areas |-> <<>>, last |-> NoFrame]

HistoryStep ==
    /\ det["A"].calls < MaxHistoryFrames
    /\ \E frame \in HistoryFrames : \E flow \in FlowsFor(det["A"], frame) :
          /\ det' = [det EXCEPT !["A"] = process_frame(det["A"], frame, flow)]
          /\ run' = [areas |-> Append(run.areas,
                         countNonZero(fire_mask_of(det["A"].profile, frame))),
                     last |-> frame]

HistoryNext == HistoryStep

SpecHistory == HistoryInit /\ [][HistoryNext]_vars

-----------------------------------------------------------------------------
\* detect_flicker applied once to a history and a new mask area

\* successive mask areas; a history is any window of at most ten of them
FlickerTape ==
    <<99, 99, 99, 99, 99, 95, 103, 97, 101, 99, 99, 99, 99, 99, 99,
      97, 101, 98, 100, 99, 99, 100, 99, 0, 0, 0, 0, 0, 0, 99, 0, 0, 0, 0,
      0, 0, 0, 0, 0, 0, 0>>

\* run holds the area of the new frame's mask and whether it was applied
FlickerInit ==
    /\ \E p \in Profiles :
       \E i \in 1..Len(FlickerTape) : \E len \in 0..flicker_maxlen :
          /\ i + len <= Len(FlickerTape)
          /\ det = [d \in {"A"} |->
                      [FreshDetector(p) EXCEPT
                          !.flicker_history = SubSeq(FlickerTape, i, i + len - 1)]]
          /\ run = [area |-> FlickerTape[i + len], applied |-> FALSE]

ApplyDetectFlicker ==
    /\ ~run.applied
    /\ LET D == det["A"]
           f == flicker_of(D.flicker_history, run.area,
                           min_flicker_variance(D.profile))
       IN det' = [det EXCEPT !["A"].flicker_history = f.flicker_history,
                             !["A"].has_flicker = f.has_flicker]
    /\ run' = [run EXCEPT !.applied = TRUE]

FlickerNext == ApplyDetectFlicker

SpecFlicker == FlickerInit /\ [][FlickerNext]_vars

-----------------------------------------------------------------------------
\* detect_fire_color applied to one pixel, on the 8-bit masks cv2 works with

\* cv2.inRange gives 255 inside the range and 0 outside
mask_value(inside) == IF inside THEN 255 ELSE 0
bitwise_not(m) == 255 - m
bitwise_and(a, b) == IF a = 255 /\ b = 255 THEN 255 ELSE 0
bitwise_or(a, b) == IF a = 255 \/ b = 255 THEN 255 ELSE 0

\* the mask of one exclusion class at a pixel, as detect_fire_color builds it
exclusion_mask(p, class, hsv) ==
    IF p = "strict"
    THEN CASE class = "skin" ->
                mask_value(inRange(hsv, <<0, 10, 60>>, <<25, 110, 200>>))
           [] class = "tomato" ->
                bitwise_or(mask_value(inRange(hsv, <<0, 60, 80>>, <<25, 140, 150>>)),
                           mask_value(inRange(hsv, <<170, 60, 80>>, <<180, 140, 150>>)))
           [] class = "cloth" ->
                bitwise_or(mask_value(inRange(hsv, <<0, 50, 50>>, <<25, 110, 180>>)),
                           mask_value(inRange(hsv, <<170, 50, 50>>, <<180, 110, 180>>)))
    ELSE bitwise_or(mask_value(inRange(hsv, <<0, 50, 50>>, <<25, 100, 150>>)),
                    mask_value(inRange(hsv, <<170, 50, 50>>, <<180, 100, 150>>)))

\* the classes in the order detect_fire_color removes them
exclusion_order(p) ==
    IF p = "strict" THEN <<"skin", "tomato", "cloth">> ELSE <<"cloth">>

\* mutant: every step starts again from the unfiltered fire mask
remove_class_from_raw(fire_mask, raw_mask, class_mask) ==
    bitwise_and(raw_mask, bitwise_not(class_mask))

\* fire_mask = cv2.bitwise_and(fire_mask, cv2.bitwise_not(class_mask))
remove_class(fire_mask, raw_mask, class_mask) ==
    bitwise_and(fire_mask, bitwise_not(class_mask))

RECURSIVE remove_classes(_, _, _, _, _)
remove_classes(fire_mask, raw_mask, order, p, hsv) ==
    IF order = <<>> THEN fire_mask
    ELSE remove_classes(
             remove_class(fire_mask, raw_mask, exclusion_mask(p, Head(order), hsv)),
             raw_mask, Tail(order), p, hsv)

\* the two fire ranges OR'd
raw_fire_mask(p, hsv) ==
    IF p = "strict"
    THEN bitwise_or(mask_value(inRange(hsv, <<0, 140, 150>>, <<15, 255, 255>>)),
                    mask_value(inRange(hsv, <<175, 140, 150>>, <<180, 255, 255>>)))
    ELSE bitwise_or(mask_value(inRange(hsv, <<0, 100, 100>>, <<25, 255, 255>>)),
                    mask_value(inRange(hsv, <<170, 100, 100>>, <<180, 255, 255>>)))

\* the mask value at the pixel before morphology
fire_mask_value(p, hsv) ==
    remove_classes(raw_fire_mask(p, hsv), raw_fire_mask(p, hsv),
                   exclusion_order(p), p, hsv)

\* values on and next to every bound of the configured ranges
Hues == {0, 10, 15, 16, 25, 26, 90, 169, 170, 174, 175, 180}
Saturations == {0, 9, 10, 49, 50, 59, 60, 99, 100, 101, 109, 110, 111,
                139, 140, 141, 150, 255}
Values == {0, 49, 50, 59, 60, 79, 80, 99, 100, 101, 149, 150, 151,
           179, 180, 181, 199, 200, 201, 255}
Pixels == Hues \X Saturations \X Values

\* run holds the pixel and, once applied, its mask value and whether
\* detect_fire_color keeps it
ColourInit ==
    /\ \E p \in Profiles : det = [d \in {"A"} |-> FreshDetector(p)]
    /\ \E hsv \in Pixels :
          run = [hsv |-> hsv, applied |-> FALSE, mask |-> 0, in_mask |-> FALSE]

ApplyDetectFireColor ==
    /\ ~run.applied
    /\ run' = [run EXCEPT
                 !.applied = TRUE,
                 !.mask = fire_mask_value(det["A"].profile, run.hsv),
                 !.in_mask = detect_fire_color(det["A"].profile, run.hsv)]
    /\ UNCHANGED det

ColourNext == ApplyDetectFireColor

SpecColour == ColourInit /\ [][ColourNext]_vars

-----------------------------------------------------------------------------
\* One detector through a voting streak and the frames after it

MaxDecayFrames == 12

\* run.peak is the counter after the last voting frame, run.since the
\* number of frames processed after that frame
DecayInit ==
    /\ \E p \in Profiles : det = [d \in {"A"} |-> FreshDetector(p)]
    /\ run = [peak |-> 0, since |-> 0]

DecayStep ==
    /\ det["A"].calls < MaxDecayFrames
    /\ \E frame \in HistoryFrames : \E flow \in FlowsFor(det["A"], frame) :
          LET E == process_frame(det["A"], frame, flow)
          IN /\ det' = [det EXCEPT !["A"] = E]
             /\ run' = IF voted(E)
                       THEN [peak |-> E.consecutive_frames, since |-> 0]
                       ELSE [peak |-> run.peak, since |-> run.since + 1]

DecayNext == DecayStep

SpecDecay == DecayInit /\ [][DecayNext]_vars

-----------------------------------------------------------------------------
\* The capture loop of fire_detection.py: main's alert banner

MaxLoopFrames == 11

\* mutant: the else branch that clears alert_sound_played is missing
alert_banner_no_rearm(fire_status, alert_sound_played) ==
    IF fire_status
    THEN [printed |-> ~alert_sound_played, alert_sound_played |-> TRUE]
    ELSE [printed |-> FALSE, alert_sound_played |-> alert_sound_played]

\* the if fire_status / else of main: whether the banner is printed and
\* the new alert_sound_played
alert_banner(fire_status, alert_sound_played) ==
    IF fire_status
    THEN [printed |-> ~alert_sound_played, alert_sound_played |-> TRUE]
    ELSE [printed |-> FALSE, alert_sound_played |-> FALSE]

\* run.printed tells whether the last iteration printed the banner,
\* run.before the fire_status of the iteration before it
LoopInit ==
    /\ det = [d \in {"A"} |-> FreshDetector("strict")]
    /\ run = [alert_sound_played |-> FALSE, printed |-> FALSE, before |-> FALSE]

LoopIteration ==
    /\ det["A"].calls < MaxLoopFrames
    /\ \E frame \in HistoryFrames : \E flow \in FlowsFor(det["A"], frame) :
          LET E == process_frame(det["A"], frame, flow)
              b == alert_banner(E.fire_status, run.alert_sound_played)
          IN /\ det' = [det EXCEPT !["A"] = E]
             /\ run' = [alert_sound_played |-> b.alert_sound_played,
                        printed |-> b.printed,
                        before |-> det["A"].fire_status]

LoopNext == LoopIteration

SpecLoop == LoopInit /\ [][LoopNext]_vars

-----------------------------------------------------------------------------
\* The capture loop of fire_detection_advanced.py with FireDetectorWithAlert.
\* Time is counted in whole seconds of time.time().

MaxAlarmFrames == 9

alert_cooldown == 2
StartTime == 10
\* seconds that may pass from one loop iteration to the next
ClockSteps == {1, 2}

\* mutant: last_alert_time is stamped before winsound.Beep is tried
play_alert_stamps_first(current_time, last_alert_time, beep_ok) ==
    IF current_time - last_alert_time > alert_cooldown
    THEN [tried |-> TRUE, beeped |-> beep_ok, last_alert_time |-> current_time]
    ELSE [tried |-> FALSE, beeped |-> FALSE, last_alert_time |-> last_alert_time]

\* play_alert at time current_time; beep_ok tells whether winsound.Beep
\* returns rather than raises
play_alert(current_time, last_alert_time, beep_ok) ==
    IF current_time - last_alert_time > alert_cooldown
    THEN IF beep_ok
         THEN [tried |-> TRUE, beeped |-> TRUE, last_alert_time |-> current_time]
         ELSE [tried |-> TRUE, beeped |-> FALSE, last_alert_time |-> last_alert_time]
    ELSE [tried |-> FALSE, beeped |-> FALSE, last_alert_time |-> last_alert_time]

\* FireDetectorWithAlert built on the FireDetector class of the same file.
\* run.invoked and run.beeped are about the last iteration; run.last_beep
\* and run.last_failure are the times of the last beep made and of the
\* last beep that raised (0: none yet).
AlarmInit ==
    /\ det = [d \in {"A"} |-> FreshDetector("permissive")]
    /\ run = [now |-> StartTime, last_alert_time |-> 0, invoked |-> FALSE,
              beeped |-> FALSE, last_beep |-> 0, last_failure |-> 0]

AlarmIteration ==
    /\ det["A"].calls < MaxAlarmFrames
    /\ \E frame \in HistoryFrames : \E flow \in FlowsFor(det["A"], frame) :
       \E dt \in ClockSteps : \E beep_ok \in BOOLEAN :
          LET E == process_frame(det["A"], frame, flow)
              now == run.now + dt
              a == play_alert(now, run.last_alert_time, beep_ok)
          IN /\ det' = [det EXCEPT !["A"] = E]
             /\ run' = IF E.fire_status
                       THEN [now |-> now,
                             last_alert_time |-> a.last_alert_time,
                             invoked |-> TRUE,
                             beeped |-> a.beeped,
                             last_beep |-> IF a.beeped THEN now ELSE run.last_beep,
                             last_failure |-> IF a.tried /\ ~a.beeped THEN now
                                              ELSE run.last_failure]
                       ELSE [run EXCEPT !.now = now, !.invoked = FALSE,
                                        !.beeped = FALSE]

AlarmNext == AlarmIteration

SpecAlarm == AlarmInit /\ [][AlarmNext]_vars

-----------------------------------------------------------------------------
\* Properties

Detectors == DOMAIN det

\* d has just processed a frame in this step
Processed(d) == det'[d].calls = det[d].calls + 1

\* C1: in process_frame the counter becomes c + 1 exactly when a contour
\* was accepted, motion_ratio > min_motion_threshold (strictly) and flicker
\* was reported; in every other case it becomes max(0, c - 1).
C1_VoteCounter ==
    [][\A d \in Detectors :
          Processed(d) =>
             LET D == det'[d]
                 c == det[d].consecutive_frames
                 thr == min_motion_threshold(D.profile)
                 all3 == /\ D.fire_detected_this_frame
                         /\ D.motion_ratio[1] * thr[2] > thr[1] * D.motion_ratio[2]
                         /\ D.has_flicker
             IN D.consecutive_frames = IF all3 THEN c + 1
                                       ELSE IF c = 0 THEN 0 ELSE c - 1]_vars

\* a strict detector whose last two frames both voted
C1_Witness ==
    /\ det["A"].profile = "strict"
    /\ voted(det["A"])
    /\ det["A"].consecutive_frames = 2

\* C2: the returned alert status is consecutive_frames >= required_detections
\* on the counter after the frame's update, and nothing else.
C2_StatusIsThreshold ==
    \A d \in Detectors :
       det[d].fire_status <=>
          det[d].consecutive_frames >= required_detections(det[d].profile)

\* an alerting strict detector
C2_Witness ==
    /\ det["A"].profile = "strict"
    /\ det["A"].fire_status

\* C3 as stated: the counter stays within [0, required_detections].
C3_Saturates ==
    \A d \in Detectors :
       /\ 0 <= det[d].consecutive_frames
       /\ det[d].consecutive_frames <= required_detections(det[d].profile)

\* C3, amended: the counter is at least 0 and is not capped: after n calls
\* it lies in [0, n].
C3_CounterRange ==
    \A d \in Detectors :
       /\ 0 <= det[d].consecutive_frames
       /\ det[d].consecutive_frames <= det[d].calls

\* the counter above required_detections
C3_Witness ==
    det["A"].consecutive_frames > required_detections(det["A"].profile)

\* C4: consecutive_frames >= 0 after every frame; a non-voting frame at
\* counter 0 leaves it at 0.
C4_NeverNegative ==
    \A d \in Detectors : det[d].consecutive_frames >= 0

\* a warmed-up detector whose last frame did not vote and left the counter 0
C4_Witness ==
    /\ det["A"].calls > flicker_warmup
    /\ det["A"].has_flicker
    /\ ~voted(det["A"])
    /\ det["A"].consecutive_frames = 0

\* C5: confidence = min(100, 100 * consecutive_frames / required_detections)
\* on the updated counter; it is within [0, 100], non-decreasing in the
\* counter, and 100 exactly when fire_status is True.
C5_Confidence ==
    \A d \in Detectors :
       LET c == det[d].consecutive_frames
           r == required_detections(det[d].profile)
       IN /\ det[d].confidence * r = ConfUnit * Min(100 * r, 100 * c)
          /\ 0 <= det[d].confidence
          /\ det[d].confidence <= Percent(100)
          /\ det[d].confidence = Percent(100) <=> det[d].fire_status
          /\ \A c1 \in 0..c : confidence_score(c1, r) <= det[d].confidence

\* a counter above required_detections, where the cap applies
C5_Witness ==
    /\ det["A"].consecutive_frames > required_detections(det["A"].profile)
    /\ det["A"].confidence = Percent(100)

\* C6: on a fresh detector detect_flicker returns False on each of the first
\* 4 calls, whatever the areas.
C6_WarmUp ==
    \A d \in Detectors :
       det[d].calls \in 1..(flicker_warmup - 1) => ~det[d].has_flicker

\* the 4th call, on areas whose normalised variance exceeds the threshold
C6_Witness ==
    /\ det["A"].calls = flicker_warmup - 1
    /\ area_variance_exceeds(det["A"].flicker_history,
                             min_flicker_variance(det["A"].profile))
    /\ ~det["A"].has_flicker

\* C7: the first frame of a fresh detector gives motion ratio 0 and alert
\* status False, and is stored as the previous frame.
C7_FirstFrame ==
    \A d \in Detectors :
       det[d].calls = 1 =>
          /\ det[d].motion_ratio[1] = 0
          /\ ~det[d].fire_status
          /\ det[d].prev_gray # None

\* a first frame that shows an accepted flame
C7_Witness ==
    /\ det["A"].calls = 1
    /\ det["A"].fire_detected_this_frame
    /\ det["A"].flicker_history = <<1000>>

\* C8 as stated: in the positive scenario of required_detections + 2 frames
\* the alert is on, with confidence 100, from frame required_detections.
C8_AlertByRequired ==
    \A d \in Detectors :
       LET r == required_detections(det[d].profile)
       IN (positive /\ det[d].calls >= r /\ det[d].calls <= r + 2) =>
             /\ det[d].fire_status
             /\ det[d].confidence = Percent(100)

\* C8, amended: in the positive scenario the alert is off on frames
\* 1 .. required_detections + 3 and on, with confidence 100, on frame
\* required_detections + 4 and every later frame.
C8_AlertAfterWarmUp ==
    \A d \in Detectors :
       LET r == required_detections(det[d].profile)
       IN (positive /\ det[d].calls >= 1) =>
             /\ det[d].fire_status <=> det[d].calls >= r + flicker_warmup - 1
             /\ det[d].calls >= r + flicker_warmup - 1 =>
                   det[d].confidence = Percent(100)

\* the strict detector alerting in the positive scenario
C8_Witness ==
    /\ positive
    /\ det["A"].profile = "strict"
    /\ det["A"].fire_status
    /\ det["A"].calls = strict_required_detections + flicker_warmup - 1

\* C9: a fresh detector fed identical frames never alerts; any frame with
\* the candidate area of the frame before it and no motion does not vote
\* and can only decay the counter.
C9_StaticNeverAlerts ==
    /\ [](\A d \in Detectors :
             run.static => ~det[d].fire_status /\ det[d].consecutive_frames = 0)
    /\ [][\A d \in Detectors :
             (/\ Processed(d)
              /\ det[d].calls >= 1
              /\ det'[d].motion_ratio[1] = 0
              /\ det'[d].flicker_history[Len(det'[d].flicker_history)]
                    = det[d].flicker_history[Len(det[d].flicker_history)])
             => /\ ~voted(det'[d])
                /\ det'[d].consecutive_frames <= det[d].consecutive_frames]_vars

\* required_detections + 5 identical frames of a cloth-red disc
C9_Witness ==
    /\ run.static
    /\ run.last.blobs = {"cloth"}
    /\ det["A"].profile = "strict"
    /\ det["A"].calls = strict_required_detections + 5

\* C10: on one frame sequence, if every frame that votes under strict also
\* votes under permissive (as in the positive scenario), the permissive
\* counter is >= the strict counter at every frame and permissive alerts no
\* later than strict.
C10_PermissiveNoLater ==
    /\ positive => run.dominated
    /\ run.dominated =>
          /\ det["B"].consecutive_frames >= det["A"].consecutive_frames
          /\ run.alerted["A"] => run.alerted["B"]

\* the positive scenario at the frame where strict first alerts
C10_Witness ==
    /\ positive
    /\ det["A"].fire_status
    /\ run.alerted["B"]
    /\ det["A"].calls = strict_required_detections + flicker_warmup - 1

C13_DegenerateRejected ==
    run.outcome # "pending" =>
        /\ run.outcome # ZeroDivisionError
        /\ (\/ run.contour.perimeter = 0
            \/ run.contour.hull_area = 0
            \/ run.contour.rect_w = 0)
              => run.outcome = "False" /\ ~run.accepted

\* a straight-line contour: it has a length but no width and no area
C13_Witness ==
    /\ run.outcome = "False"
    /\ run.contour.perimeter > 0
    /\ run.contour.rect_w = 0
    /\ run.contour.rect_h > 0
    /\ run.contour.hull_area = 0

\* C17: under either profile is_fire_like_shape accepts a contour exactly
\* when the area gate, the two-sided circularity gate, the aspect gate and
\* the solidity gate all pass.
C17_FourGates ==
    run.outcome # "pending" =>
        LET c == run.contour
            p == det["A"].profile
            strict == p = "strict"
        IN run.accepted <=>
              /\ area_gate(c, min_fire_area(p), max_fire_area(p))
              /\ circularity_gate(c, <<1, 4>>,
                                  IF strict THEN <<7, 10>> ELSE <<4, 5>>)
              /\ aspect_gate(<<c.rect_h, c.rect_w>>,
                             IF strict THEN <<3, 5>> ELSE <<3, 10>>,
                             IF strict THEN <<9, 5>> ELSE <<3, 1>>)
              /\ solidity_gate(c, <<2, 5>>, <<17, 20>>)

\* C18: with the other three gates passed, the strict detector accepts a
\* contour exactly when width / height of its minimal rectangle lies in
\* [0.6, 1.8].
C18_AspectWidthOverHeight ==
    run.outcome # "pending" /\ det["A"].profile = "strict" =>
        LET c == run.contour
        IN /\ area_gate(c, min_fire_area("strict"), max_fire_area("strict"))
           /\ circularity_gate(c, <<1, 4>>, <<7, 10>>)
           /\ solidity_gate(c, <<2, 5>>, <<17, 20>>)
           => (run.accepted <=>
                 aspect_gate(<<c.rect_w, c.rect_h>>, <<3, 5>>, <<9, 5>>))

\* C14: a process_frame call on one detector leaves every attribute of the
\* other detector as it was, and after any interleaving each detector is in
\* the state it would have reached had it received its frames alone.
C14_NoSharedState ==
    /\ [][\A d \in TwoDetectors : \A e \in TwoDetectors \ {d} :
            run'.total = run.total + 1 /\ run'.caller = d
                => det'[attribute_owner(e)] = det[attribute_owner(e)]]_vars
    /\ [](\A d \in TwoDetectors : det[attribute_owner(d)] = run.solo[d])

\* A, then B, then A again, the two having seen different frames
C14_Witness ==
    /\ run.caller = "A"
    /\ det["A"].calls >= 2
    /\ det["B"].calls >= 1
    /\ det["A"].consecutive_frames >= 1
    /\ det["B"].consecutive_frames = 0
    /\ det["A"].prev_gray # det["B"].prev_gray

\* C15: when process_frame returns, the array the caller passed in holds
\* the picture it was given with nothing drawn on it, the returned frame is
\* another array, and self.prev_gray is not the caller's array.
C15_InputUnchanged ==
    det["A"].calls >= 1 =>
        /\ run.heap[run.input] = [picture |-> run.given, boxes |-> {}]
        /\ run.marked # run.input
        /\ run.prev # run.input

\* a frame whose flame contour was accepted and boxed, on a later call
C15_Witness ==
    /\ det["A"].calls >= 2
    /\ run.heap[run.marked].boxes = {"flameS"}
    /\ run.heap[run.input].boxes = {}

\* C16: the motion ratio detect_motion returns is a number between 0 and
\* 1, and it is exactly 0 when the fire mask of the frame is empty.
C16_MotionRatioRange ==
    det["A"].calls >= 1 =>
        LET r == det["A"].motion_ratio
            h == det["A"].flicker_history
        IN /\ r[2] > 0
           /\ 0 <= r[1] /\ r[1] <= r[2]
           /\ h[Len(h)] = 0 => r[1] = 0

\* every pixel of a non-empty mask moved
C16_Witness ==
    /\ det["A"].calls >= 2
    /\ det["A"].flicker_history[Len(det["A"].flicker_history)] > 0
    /\ det["A"].motion_ratio = <<1, 1>>

\* C19: a process_frame call that returns leaves prev_gray equal to the
\* grayscale image of the frame it was given, on the first call and with an
\* empty mask too; a call that raises leaves prev_gray as it was.
C19_PrevGrayIsLastFrame ==
    [][run'.attempts = run.attempts + 1 =>
          det'["A"].prev_gray = IF run'.raised THEN det["A"].prev_gray
                                 ELSE run'.last.gray]_vars

\* a later call with an empty mask and another image than the one before
C19_Witness ==
    /\ ~run.raised
    /\ det["A"].calls >= 2
    /\ run.last.blobs = {}
    /\ run.last.gray = 2
    /\ det["A"].prev_gray = 2
    /\ det["A"].flicker_history[det["A"].calls - 1] > 0

\* C20: every process_frame call appends one sample, so after n frames the
\* flicker history is the mask areas of the last min(n, 10) frames, oldest
\* first.
C20_HistoryIsLastTen ==
    LET n == det["A"].calls
        h == det["A"].flicker_history
        a == run.areas
    IN /\ Len(a) = n
       /\ Len(h) = Min(n, flicker_maxlen)
       /\ \A i \in 1..Len(h) : h[i] = a[n - Len(h) + i]

\* twelve frames in, the two oldest samples are gone
C20_Witness ==
    /\ det["A"].calls = 12
    /\ Len(det["A"].flicker_history) = 10
    /\ run.areas[1] > 0 /\ run.areas[2] > 0
    /\ det["A"].flicker_history[1] = 0
    /\ det["A"].flicker_history[10] > 0

\* C21: with five or more samples held, the new one included,
\* detect_flicker returns True exactly when the population variance of the
\* samples divided by (their mean + 1) is greater than
\* min_flicker_variance; samples that are all equal give False.
C21_FlickerIsNormalisedVariance ==
    run.applied =>
        LET h == det["A"].flicker_history
            n == Len(h)
            S == SeqSum(h)
            thr == min_flicker_variance(det["A"].profile)
            \* variance = SqDev / n^3, mean + 1 = (S + n) / n
            SqDev == SeqSum([i \in 1..n |-> (n * h[i] - S) * (n * h[i] - S)])
        IN /\ h[n] = run.area
           /\ n >= flicker_warmup =>
                 (det["A"].has_flicker <=>
                     thr[2] * SqDev > thr[1] * n * n * (S + n))
           /\ (\A i \in 1..n : h[i] = h[1]) => ~det["A"].has_flicker

\* a full history whose normalised variance lies between the two profiles'
\* thresholds, seen by the strict detector
C21_Witness ==
    /\ run.applied
    /\ det["A"].profile = "strict"
    /\ Len(det["A"].flicker_history) = flicker_maxlen
    /\ \E i \in 1..flicker_maxlen : det["A"].flicker_history[i] = 103
    /\ ~det["A"].has_flicker

\* C22: under either profile a pixel is in the mask before morphology
\* exactly when it lies in one of the two fire bands and in none of the
\* skin, produce and cloth classes, each class being two hue bands, one
\* near hue 0 and one near hue 180.
C22_ThreeTwoBandExclusions ==
    run.applied =>
        LET hsv == run.hsv
            p == det["A"].profile
            fire == IF p = "strict" THEN strict_fire(hsv) ELSE permissive_fire(hsv)
            skin == \/ inRange(hsv, <<0, 10, 60>>, <<25, 110, 200>>)
                    \/ inRange(hsv, <<170, 10, 60>>, <<180, 110, 200>>)
            produce == strict_tomato(hsv)
            cloth == IF p = "strict" THEN strict_cloth(hsv) ELSE permissive_cloth(hsv)
        IN run.in_mask <=> fire /\ ~skin /\ ~produce /\ ~cloth

\* C23: removing the skin, produce and cloth masks from the fire mask in
\* any of the six orders gives the mask detect_fire_color gives, which is
\* fire AND NOT (skin OR produce OR cloth).
C23_OrderIndependent ==
    run.applied /\ det["A"].profile = "strict" =>
        LET hsv == run.hsv
            raw == raw_fire_mask("strict", hsv)
            m(class) == exclusion_mask("strict", class, hsv)
            Orders == {o \in [1..3 -> {"skin", "tomato", "cloth"}] :
                          \A i, j \in 1..3 : i # j => o[i] # o[j]}
        IN /\ \A o \in Orders :
                 remove_classes(raw, raw, o, "strict", hsv) = run.mask
           /\ run.mask = bitwise_and(raw, bitwise_not(
                   bitwise_or(m("skin"), bitwise_or(m("tomato"), m("cloth")))))
           /\ run.in_mask <=> run.mask = 255

\* a fire-band pixel that the produce band removes and the others keep
C23_Witness ==
    /\ run.applied
    /\ det["A"].profile = "strict"
    /\ run.hsv = <<10, 140, 150>>
    /\ run.mask = 0

\* C28: of the pixels in a fire band, exclusion removes in the strict
\* detector exactly those with S = 140 and V = 150, none of them by the
\* skin or cloth bands, and in the permissive detector exactly those with
\* S = 100 and V in [100, 150].
C28_ExclusionMeetsFireOnBoundary ==
    run.applied =>
        LET hsv == run.hsv
            strict == det["A"].profile = "strict"
        IN IF strict
           THEN strict_fire(hsv) =>
                   /\ ~run.in_mask <=> hsv[2] = 140 /\ hsv[3] = 150
                   /\ ~strict_skin(hsv) /\ ~strict_cloth(hsv)
           ELSE permissive_fire(hsv) =>
                   (~run.in_mask <=>
                       hsv[2] = 100 /\ hsv[3] >= 100 /\ hsv[3] <= 150)

\* a wrap-around fire pixel on the saturation boundary, removed
C28_Witness ==
    /\ run.applied
    /\ det["A"].profile = "strict"
    /\ run.hsv = <<175, 140, 150>>
    /\ ~run.in_mask

\* C24: in one process_frame call the shape test, the motion ratio and the
\* flicker test are those of the mask of the frame given, the flicker test
\* covers that frame's area sample, the vote is made of these three, the
\* counter is updated by that vote, and the status and confidence returned
\* are those of the updated counter.
C24_StepsInOrder ==
    [][det'["A"].calls = det["A"].calls + 1 =>
          LET D == det["A"]
              E == det'["A"]
              p == D.profile
              mask == fire_mask_of(p, run'.last)
              h == E.flicker_history
              v == /\ E.fire_detected_this_frame
                   /\ RatioGT(E.motion_ratio, min_motion_threshold(p))
                   /\ E.has_flicker
              c == IF v THEN D.consecutive_frames + 1
                   ELSE Max(0, D.consecutive_frames - 1)
          IN /\ h[Len(h)] = countNonZero(mask)
             /\ E.fire_detected_this_frame
                   = (\E b \in mask : is_fire_like_shape(p, Blob[b].contour))
             /\ countNonZero(mask) = 0 => E.motion_ratio[1] = 0
             /\ E.has_flicker
                   = (Len(h) >= flicker_warmup
                        /\ area_variance_exceeds(h, min_flicker_variance(p)))
             /\ E.consecutive_frames = c
             /\ E.fire_status = (c >= required_detections(p))
             /\ E.confidence
                   = Min(Percent(100), (c * Percent(100)) \div required_detections(p))]_vars

\* the frame whose own vote brings the counter to required_detections
C24_Witness ==
    /\ det["A"].fire_status
    /\ det["A"].consecutive_frames = required_detections(det["A"].profile)
    /\ det["A"].fire_detected_this_frame
    /\ det["A"].has_flicker
    /\ run.last.blobs = {"flameS"}
    /\ det["A"].profile = "strict"

\* C25: a fresh detector counts no vote on frames 1 to 4, so its status
\* is false on every frame before frame 5 + required_detections - 1, that
\* is on frames 1 to 8 (strict) and 1 to 6 (permissive).
C25_NoAlertBeforeWarmUpPlusStreak ==
    LET D == det["A"]
        first == IF D.profile = "strict" THEN 9 ELSE 7
    IN /\ D.calls < 5 => D.consecutive_frames = 0
       /\ D.calls < first => ~D.fire_status
       /\ first = 5 + required_detections(D.profile) - 1

\* the strict detector alerting on frame 9
C25_Witness ==
    /\ det["A"].profile = "strict"
    /\ det["A"].calls = 9
    /\ det["A"].fire_status

\* C26: k non-voting frames after a streak that left the counter at c, the
\* counter is max(0, c - k); so with c >= required_detections the status
\* is true for the first c - required_detections of those frames and
\* false from the next one on, and the counter is back at 0 after c frames.
C26_AlertOutlastsStreak ==
    LET D == det["A"]
        c == run.peak
        k == run.since
        required == required_detections(D.profile)
    IN /\ D.consecutive_frames = Max(0, c - k)
       /\ c >= required => (D.fire_status <=> k <= c - required)
       /\ D.consecutive_frames = 0 <=> k >= c

\* a streak that went one past required_detections, fully decayed
C26_Witness ==
    /\ run.peak > required_detections(det["A"].profile)
    /\ run.since = run.peak
    /\ det["A"].consecutive_frames = 0
    /\ ~det["A"].fire_status

\* C27: a process_frame call that raises leaves prev_gray, the flicker
\* history, the counter and every other attribute of the detector as they
\* were before the call.
C27_FailedCallChangesNothing ==
    [][run'.attempts = run.attempts + 1 /\ run'.raised => det' = det]_vars

\* a frame of another size arriving while the counter is above zero
C27_Witness ==
    /\ run.raised
    /\ shape_of(run.last.gray) = "320x240"
    /\ det["A"].consecutive_frames >= 1
    /\ Len(det["A"].flicker_history) >= flicker_warmup
    /\ det["A"].prev_gray \in GrayIds

\* C29: main prints the alert banner on a frame exactly when that frame
\* alerts and the frame before it did not, that is once at the start of
\* every run of alerting frames; the first non-alerting frame re-arms it.
C29_BannerOncePerAlertRun ==
    /\ run.printed <=> det["A"].fire_status /\ ~run.before
    /\ run.alert_sound_played <=> det["A"].fire_status

\* the banner of a second run of alerting frames
C29_Witness ==
    /\ run.printed
    /\ det["A"].calls >= 11
    /\ det["A"].fire_status
    /\ ~run.before

\* C30: the loop calls play_alert on exactly the frames that alert; a beep
\* is made only more than alert_cooldown seconds after the beep before it;
\* and last_alert_time changes only when a beep is made, to the time of
\* that beep.
C30_BeepsRespectCooldown ==
    [][det'["A"].calls = det["A"].calls + 1 =>
          /\ run'.invoked <=> det'["A"].fire_status
          /\ run'.beeped =>
                /\ run'.invoked
                /\ run'.now - run.last_beep > alert_cooldown
                /\ run'.last_alert_time = run'.now
          /\ ~run'.beeped => run'.last_alert_time = run.last_alert_time]_vars

\* a beep one second after a beep that raised, and after an earlier beep
C30_Witness ==
    /\ run.beeped
    /\ run.last_failure > 0
    /\ run.now - run.last_failure <= alert_cooldown
    /\ run.last_alert_time = run.now

====
